---------------------------- MODULE Spec2Model ----------------------------
(***************************************************************************)
(* A model of the point-source rupture enumeration of oq-hazardlib:        *)
(*   src/openquake/hazardlib/pmf.py   PMF                                  *)
(*   src/nhe/source/point.py          PointSource                          *)
(*                                                                         *)
(* Python floats are modelled as exact rationals <<n, d>> in lowest terms  *)
(* with d > 0, so the model states the arithmetic the code performs        *)
(* without floating-point rounding.  Square roots are taken only of        *)
(* rationals whose numerator and denominator are perfect squares, and the  *)
(* dip angles are those whose sine and cosine are rational (90 degrees and *)
(* the two acute angles of the 3-4-5 triangle).                            *)
(* The code is Python 2: zip() and map() return lists.                     *)
(***************************************************************************)
EXTENDS Integers, Sequences, FiniteSets

VARIABLES
    pmf_data,      \* PMF.__init__: the argument `data`
    pmf_epsilon,   \* PMF.__init__: the argument `epsilon`
    pmf_out,       \* PMF.__init__: Pending, or the outcome of the call
    ps_args,       \* PointSource.__init__: the arguments
    ps_out,        \* PointSource.__init__: PendingSource, or the outcome of the call
    g_self,        \* the source a geometry method is called on
    g_call,        \* the geometry method called, with its arguments
    g_out,         \* what that call returned or raised
    source,        \* the PointSource whose ruptures are enumerated
    gens,          \* the generator objects iter_ruptures has returned
    md_mesh,       \* min_distance: the candidate mesh (mlons, mlats, mdepths)
    md_refs,       \* min_distance: the reference points (slons, slats, sdepths)
    md_out         \* min_distance: NoDistances, or the array returned

pmfVars == <<pmf_data, pmf_epsilon, pmf_out>>
psVars  == <<ps_args, ps_out>>
geomVars == <<g_self, g_call, g_out>>
enumVars == <<source, gens>>
mdVars  == <<md_mesh, md_refs, md_out>>
vars    == <<pmf_data, pmf_epsilon, pmf_out, ps_args, ps_out, g_self, g_call, g_out,
             source, gens, md_mesh, md_refs, md_out>>

(***************************************************************************)
(* Bounds of the model.                                                    *)
(***************************************************************************)
MaxPmfLen == 3     \* longest `data` list given to PMF.__init__
MaxDist   == 2     \* longest nodal-plane / hypocenter-depth distribution of a source
MaxDepth  == 3     \* deepest depth, km
MaxMags   == 2     \* most magnitude bins of an MFD
MaxSide   == 2     \* largest base side (km) of the magnitude-scaling relationships
MaxMesh   == 3     \* most points of a candidate mesh
MaxRefs   == 2     \* most reference points

(***************************************************************************)
(* Exact rational arithmetic standing for Python float arithmetic.         *)
(***************************************************************************)
Abs(x) == IF x < 0 THEN -x ELSE x

RECURSIVE GCD(_, _)
GCD(a, b) == IF b = 0 THEN a ELSE GCD(b, a % b)

QNorm(n, d) ==
    LET s == IF d < 0 THEN -1 ELSE 1
        g == GCD(Abs(n), Abs(d))
    IN  <<(s * n) \div g, (s * d) \div g>>

QI(i)      == <<i, 1>>
QAdd(a, b) == QNorm(a[1] * b[2] + b[1] * a[2], a[2] * b[2])
QSub(a, b) == QNorm(a[1] * b[2] - b[1] * a[2], a[2] * b[2])
QMul(a, b) == QNorm(a[1] * b[1], a[2] * b[2])
QDiv(a, b) == QNorm(a[1] * b[2], a[2] * b[1])
QNeg(a)    == <<-a[1], a[2]>>
QAbs(a)    == <<Abs(a[1]), a[2]>>
QLt(a, b)  == a[1] * b[2] < b[1] * a[2]
QLe(a, b)  == a[1] * b[2] <= b[1] * a[2]
QGt(a, b)  == QLt(b, a)
QGe(a, b)  == QLe(b, a)

\* math.sqrt, on the rationals whose square root is rational
ISqrt(n)   == CHOOSE r \in 0..n : r * r = n
QSqrt(a)   == <<ISqrt(a[1]), ISqrt(a[2])>>

(***************************************************************************)
(* Python numbers as PMF.__init__ receives them: an int or a float.        *)
(* float() turns either into a float of the same numeric value.            *)
(***************************************************************************)
PyInt(i)      == [t |-> "int", q |-> QI(i)]
PyFloat(n, d) == [t |-> "float", q |-> QNorm(n, d)]
Float(x)      == [t |-> "float", q |-> x.q]

\* sum(probs): left to right from the int 0
RECURSIVE SumQ(_)
SumQ(s) == IF s = <<>> THEN QI(0)
           ELSE QAdd(SumQ(SubSeq(s, 1, Len(s) - 1)), s[Len(s)].q)

(***************************************************************************)
(* PMF.__init__(data, epsilon).  `data` is a list of (probability, value)  *)
(* pairs.  Returns the outcome: the exception raised, or the object with   *)
(* its `data` slot.                                                        *)
(***************************************************************************)
\* probs, values = zip(*data); unpacking the empty zip raises ValueError
Probs(data)  == [i \in 1..Len(data) |-> data[i][1]]
Values(data) == [i \in 1..Len(data) |-> data[i][2]]

\* any(prob < 0 for prob in probs)
AnyNegative(probs) == \E i \in 1..Len(probs) : QLt(probs[i].q, QI(0))

\* abs(float(sum(probs)) - 1.0) > epsilon
SumOffNoAbs(probs, epsilon) == QGt(QSub(SumQ(probs), QI(1)), epsilon)
SumOff(probs, epsilon) == QGt(QAbs(QSub(SumQ(probs), QI(1))), epsilon)

\* zip(map(float, probs), values)
ZipFloat(probs, values) == [i \in 1..Len(probs) |-> <<Float(probs[i]), values[i]>>]

Raise(exc) == [status |-> exc, data |-> <<>>]
Pending    == [status |-> "pending", data |-> <<>>]

PMFInit(data, epsilon) ==
    IF data = <<>> THEN Raise("ValueError")
    ELSE IF AnyNegative(Probs(data)) THEN Raise("ValueError")
    ELSE IF SumOff(Probs(data), epsilon) THEN Raise("ValueError")
    ELSE [status |-> "ok", data |-> ZipFloat(Probs(data), Values(data))]

(***************************************************************************)
(* Inputs of the PMF specification.                                        *)
(***************************************************************************)
\* the default epsilon, 1E-15, is below the spacing of ProbInputs; it is
\* modelled by a tolerance below that spacing
DefaultEpsilon == QNorm(1, 1000)
Epsilons == {DefaultEpsilon, QNorm(1, 10)}

ProbInputs == {PyInt(0), PyInt(1), PyFloat(-1, 10), PyFloat(1, 10),
               PyFloat(1, 2), PyFloat(11, 10)}
PmfValues  == {"x", "y"}

SeqsUpTo(S, n) == UNION {[1..k -> S] : k \in 0..n}

PmfDataInputs == SeqsUpTo(ProbInputs \X PmfValues, MaxPmfLen)

IdlePMF == pmf_data = <<>> /\ pmf_epsilon = DefaultEpsilon /\ pmf_out = Pending

\* the call PMF(data, epsilon)
PMFConstruct ==
    /\ pmf_out = Pending
    /\ pmf_out' = PMFInit(pmf_data, pmf_epsilon)
    /\ UNCHANGED <<pmf_data, pmf_epsilon, psVars, geomVars, enumVars, mdVars>>

(***************************************************************************)
(* The collaborators of PointSource.                                       *)
(***************************************************************************)
\* nhe.common.nodalplane.NodalPlane(strike, dip, rake), angles in degrees.
\* The dips 53 and 37 stand for arcsin(4/5) and arcsin(3/5).
NodalPlane(strike, dip, rake) == [strike |-> strike, dip |-> dip, rake |-> rake]
NodalPlanes == {NodalPlane(0, 90, 0), NodalPlane(45, 53, 90), NodalPlane(300, 37, -90)}

\* math.sin(math.radians(dip)) and math.cos(math.radians(dip))
Sin(dip) == CASE dip = 90 -> QNorm(1, 1) [] dip = 53 -> QNorm(4, 5) [] dip = 37 -> QNorm(3, 5)
Cos(dip) == CASE dip = 90 -> QNorm(0, 1) [] dip = 53 -> QNorm(3, 5) [] dip = 37 -> QNorm(4, 5)

\* nhe.geo.Point(longitude, latitude, depth).  The horizontal position is
\* kept as the place the point was made at and the horizontal moves
\* (azimuth, distance) point_at has applied to it since.
Point(longitude, latitude, depth) ==
    [longitude |-> longitude, latitude |-> latitude, depth |-> depth, path |-> <<>>]

\* Point.point_at(horizontal_distance, vertical_increment, azimuth)
PointAt(p, horizontal_distance, vertical_increment, azimuth) ==
    [p EXCEPT !.path = Append(@, <<azimuth, horizontal_distance>>),
              !.depth = QAdd(@, vertical_increment)]

\* mfd.get_annual_occurrence_rates(): a list of (magnitude, annual rate);
\* an MFD is modelled by the list it returns
MagRateOf(i) == IF i % 2 = 1 THEN <<5, QNorm(1, 10)>> ELSE <<6, QNorm(1, 20)>>
MagRates == {MagRateOf(1), MagRateOf(2)}
GetAnnualOccurrenceRates(mfd) == mfd

\* magnitude_scaling_relationship.get_median_area(mag, rake): a positive
\* area in km^2; the relationships of the model give a square of
\* side base + (mag - 5), one km longer for a rake other than 0
MSRs == {[base |-> b] : b \in 1..MaxSide}
GetMedianArea(msr, mag, rake) ==
    LET side == msr.base + (mag - 5) + (IF rake = 0 THEN 0 ELSE 1)
    IN  QI(side * side)

(***************************************************************************)
(* The distributions a source is built from: PMF objects, made by          *)
(* PMF.__init__ with the default epsilon.                                  *)
(***************************************************************************)
SourceProbs == {PyInt(1), PyFloat(1, 4), PyFloat(1, 2), PyFloat(3, 4)}

PMFsOver(values, n) ==
    {PMFInit(d, DefaultEpsilon) : d \in SeqsUpTo(SourceProbs \X values, n)}
        \ {Raise("ValueError")}

Depths == {QI(k) : k \in 0..MaxDepth}
HypocenterDistributions == PMFsOver(Depths, MaxDist)

(***************************************************************************)
(* PointSource.__init__                                                    *)
(***************************************************************************)
\* upper_seismogenic_depth < 0
UpperNegative(upper) == QLt(upper, QI(0))

\* not lower_seismogenic_depth > upper_seismogenic_depth
LowerNotBelowUpper(upper, lower) == ~ QGt(lower, upper)

\* not all(upper <= depth <= lower for (prob, depth) in hypocenter_distribution.data)
DepthsOutsideUpperOnly(upper, lower, data) ==
    ~ \A i \in 1..Len(data) : QLe(upper, data[i][2])
DepthsOutside(upper, lower, data) ==
    ~ \A i \in 1..Len(data) : QLe(upper, data[i][2]) /\ QLe(data[i][2], lower)

\* not rupture_aspect_ratio > 0
AspectNotPositive(ratio) == ~ QGt(ratio, QI(0))

NoSource == [source_id |-> "none"]
RaiseSource(exc) == [status |-> exc, obj |-> NoSource]
PendingSource    == [status |-> "pending", obj |-> NoSource]

PointSourceInit(a) ==
    IF UpperNegative(a.upper_seismogenic_depth) THEN RaiseSource("SourceError")
    ELSE IF LowerNotBelowUpper(a.upper_seismogenic_depth, a.lower_seismogenic_depth)
        THEN RaiseSource("SourceError")
    ELSE IF DepthsOutside(a.upper_seismogenic_depth, a.lower_seismogenic_depth,
                          a.hypocenter_distribution.data)
        THEN RaiseSource("SourceError")
    ELSE IF AspectNotPositive(a.rupture_aspect_ratio) THEN RaiseSource("SourceError")
    ELSE [status |-> "ok",
          obj |-> [source_id |-> a.source_id,
                   name |-> a.name,
                   tectonic_region_type |-> a.tectonic_region_type,
                   mfd |-> a.mfd,
                   location |-> a.location,
                   nodal_plane_distribution |-> a.nodal_plane_distribution,
                   hypocenter_distribution |-> a.hypocenter_distribution,
                   upper_seismogenic_depth |-> a.upper_seismogenic_depth,
                   lower_seismogenic_depth |-> a.lower_seismogenic_depth,
                   magnitude_scaling_relationship |-> a.magnitude_scaling_relationship,
                   rupture_aspect_ratio |-> a.rupture_aspect_ratio]]

\* the arguments of a constructor call
SourceArgs(mfd, npd, hcd, upper, lower, msr, ratio) ==
    [source_id |-> "src1", name |-> "point", tectonic_region_type |-> "Active Shallow Crust",
     mfd |-> mfd, location |-> Point(QI(10), QI(20), QI(7)),
     nodal_plane_distribution |-> npd, hypocenter_distribution |-> hcd,
     upper_seismogenic_depth |-> upper, lower_seismogenic_depth |-> lower,
     magnitude_scaling_relationship |-> msr, rupture_aspect_ratio |-> ratio]

UpperInputs  == {QI(-1), QI(0), QI(1)}
AspectRatios == {QNorm(1, 4), QI(1), QI(4)}
AspectInputs == AspectRatios \cup {QI(0), QI(-1)}

CtorInputs ==
    {SourceArgs(mfd, npd, hcd, upper, lower, [base |-> 1], ratio) :
        mfd \in {<<>>, <<MagRateOf(1)>>},
        npd \in {PMFInit(<<<<PyInt(1), NodalPlane(0, 90, 0)>>>>, DefaultEpsilon)},
        hcd \in HypocenterDistributions,
        upper \in UpperInputs, lower \in Depths, ratio \in AspectInputs}

IdlePS == ps_args = <<>> /\ ps_out = PendingSource

\* the call PointSource(...)
PointSourceConstruct ==
    /\ ps_out = PendingSource
    /\ ps_out' = PointSourceInit(ps_args)
    /\ UNCHANGED <<ps_args, pmfVars, geomVars, enumVars, mdVars>>

(***************************************************************************)
(* PointSource._get_rupture_dimensions(mag, nodal_plane):                  *)
(* the pair <<rup_length, rup_width>>                                      *)
(***************************************************************************)
\* max_width = seismogenic_layer_width / sin(dip)
MaxWidth(self, nodal_plane) ==
    QDiv(QSub(self.lower_seismogenic_depth, self.upper_seismogenic_depth),
         Sin(nodal_plane.dip))

\* if rup_width > max_width: rup_width = max_width; rup_length = area / rup_width
ClampKeepLength(area, rup_length, rup_width, max_width) ==
    IF QGt(rup_width, max_width) THEN <<rup_length, max_width>>
    ELSE <<rup_length, rup_width>>
Clamp(area, rup_length, rup_width, max_width) ==
    IF QGt(rup_width, max_width) THEN <<QDiv(area, max_width), max_width>>
    ELSE <<rup_length, rup_width>>

GetRuptureDimensions(self, mag, nodal_plane) ==
    LET area       == GetMedianArea(self.magnitude_scaling_relationship,
                                    mag, nodal_plane.rake)
        rup_length == QSqrt(QMul(area, self.rupture_aspect_ratio))
        rup_width  == QDiv(area, rup_length)
    IN  Clamp(area, rup_length, rup_width, MaxWidth(self, nodal_plane))

(***************************************************************************)
(* PointSource._get_rupture_surface(mag, nodal_plane, hypocenter)          *)
(***************************************************************************)
\* assert upper_seismogenic_depth <= hypocenter.depth <= lower_seismogenic_depth
DepthInLayerStrict(self, hypocenter) ==
    /\ QLt(self.upper_seismogenic_depth, hypocenter.depth)
    /\ QGt(self.lower_seismogenic_depth, hypocenter.depth)
DepthInLayer(self, hypocenter) ==
    /\ QLe(self.upper_seismogenic_depth, hypocenter.depth)
    /\ QGe(self.lower_seismogenic_depth, hypocenter.depth)

AzimuthRight(nodal_plane) == nodal_plane.strike
AzimuthDown(nodal_plane)  == (AzimuthRight(nodal_plane) + 90) % 360
AzimuthLeft(nodal_plane)  == (AzimuthDown(nodal_plane) + 90) % 360
AzimuthUp(nodal_plane)    == (AzimuthLeft(nodal_plane) + 90) % 360

\* the vertical shift of the rupture center off the hypocenter
VShiftUpperOnly(upper, lower, depth, hheight) ==
    LET vshift == QAdd(QSub(upper, depth), hheight)
    IN  IF QLt(vshift, QI(0)) THEN QI(0) ELSE vshift
VShiftAlways(upper, lower, depth, hheight) == QAdd(QSub(upper, depth), hheight)
VShift(upper, lower, depth, hheight) ==
    LET vshift == QAdd(QSub(upper, depth), hheight)
    IN  IF QLt(vshift, QI(0))
        THEN LET vshift2 == QSub(QSub(lower, depth), hheight)
             IN  IF QGt(vshift2, QI(0)) THEN QI(0) ELSE vshift2
        ELSE vshift

\* hshift = abs(vshift / math.tan(rdip)); tan(rdip) is sin over cos, and at
\* a dip of 90 degrees the quotient is 0 to within rounding
HShift(vshift, dip) == QAbs(QDiv(QMul(vshift, Cos(dip)), Sin(dip)))

RuptureCenterSwapped(hypocenter, vshift, nodal_plane) ==
    IF vshift # QI(0)
    THEN PointAt(hypocenter, HShift(vshift, nodal_plane.dip), vshift,
                 IF QLt(vshift, QI(0)) THEN AzimuthDown(nodal_plane)
                 ELSE AzimuthUp(nodal_plane))
    ELSE hypocenter
RuptureCenter(hypocenter, vshift, nodal_plane) ==
    IF vshift # QI(0)
    THEN PointAt(hypocenter, HShift(vshift, nodal_plane.dip), vshift,
                 IF QLt(vshift, QI(0)) THEN AzimuthUp(nodal_plane)
                 ELSE AzimuthDown(nodal_plane))
    ELSE hypocenter

NoSurface == [status |-> "none"]

GetRuptureSurface(self, mag, nodal_plane, hypocenter) ==
    IF ~ DepthInLayer(self, hypocenter) THEN [status |-> "AssertionError"]
    ELSE
    LET dims            == GetRuptureDimensions(self, mag, nodal_plane)
        rup_length      == dims[1]
        rup_width       == dims[2]
        rup_proj_height == QMul(rup_width, Sin(nodal_plane.dip))
        rup_proj_width  == QMul(rup_width, Cos(nodal_plane.dip))
        hheight         == QDiv(rup_proj_height, QI(2))
        vshift          == VShift(self.upper_seismogenic_depth,
                                  self.lower_seismogenic_depth,
                                  hypocenter.depth, hheight)
        rupture_center  == RuptureCenter(hypocenter, vshift, nodal_plane)
        right_center    == PointAt(rupture_center, QDiv(rup_length, QI(2)), QI(0),
                                   AzimuthRight(nodal_plane))
        right_bottom    == PointAt(right_center, QDiv(rup_proj_width, QI(2)),
                                   QDiv(rup_proj_height, QI(2)),
                                   AzimuthDown(nodal_plane))
        right_top       == PointAt(right_bottom, rup_proj_width,
                                   QNeg(rup_proj_height), AzimuthUp(nodal_plane))
        left_top        == PointAt(right_top, rup_length, QI(0),
                                   AzimuthLeft(nodal_plane))
        left_bottom     == PointAt(right_bottom, rup_length, QI(0),
                                   AzimuthLeft(nodal_plane))
    IN  [status |-> "ok",
         \* PlanarSurface(left_top, right_top, right_bottom, left_bottom)
         corners |-> <<left_top, right_top, right_bottom, left_bottom>>,
         \* the locals the surface was placed with
         rup_length |-> rup_length, rup_width |-> rup_width,
         hheight |-> hheight, vshift |-> vshift,
         rupture_center |-> rupture_center]

(***************************************************************************)
(* Direct calls of the two geometry methods on a constructed source.       *)
(***************************************************************************)
Built(a) == PointSourceInit(a).obj

GeomSources ==
    {Built(SourceArgs(<<>>, PMFInit(<<<<PyInt(1), NodalPlane(0, 90, 0)>>>>, DefaultEpsilon),
                      PMFInit(<<<<PyInt(1), upper>>>>, DefaultEpsilon),
                      upper, lower, msr, ratio)) :
        upper \in {QI(0), QI(1)}, lower \in Depths, msr \in MSRs,
        ratio \in AspectRatios} \ {NoSource}

Magnitudes == {mr[1] : mr \in MagRates}
\* hypocenter depths of the direct calls: every half km down to MaxDepth
CallDepths == {QNorm(k, 2) : k \in 0..(2 * MaxDepth)}

NoCall == [op |-> "none"]
IdleGeom == g_self = NoSource /\ g_call = NoCall /\ g_out = NoSurface

CallGetRuptureDimensions(mag, nodal_plane) ==
    /\ g_call = NoCall
    /\ g_call' = [op |-> "_get_rupture_dimensions", mag |-> mag,
                  nodal_plane |-> nodal_plane]
    /\ g_out' = [status |-> "ok",
                 dims |-> GetRuptureDimensions(g_self, mag, nodal_plane)]
    /\ UNCHANGED <<g_self, pmfVars, psVars, enumVars, mdVars>>

CallGetRuptureSurface(mag, nodal_plane, depth) ==
    /\ g_call = NoCall
    /\ g_call' = [op |-> "_get_rupture_surface", mag |-> mag,
                  nodal_plane |-> nodal_plane,
                  hypocenter |-> Point(g_self.location.longitude,
                                       g_self.location.latitude, depth)]
    /\ g_out' = GetRuptureSurface(g_self, mag, nodal_plane, g_call'.hypocenter)
    /\ UNCHANGED <<g_self, pmfVars, psVars, enumVars, mdVars>>

(***************************************************************************)
(* PointSource.iter_ruptures and PointSource._iter_ruptures_at_location.   *)
(* The method is a generator function: a call makes a generator object and *)
(* runs none of the body; each next() runs the body up to the next yield.  *)
(***************************************************************************)
MfdRates(self) == GetAnnualOccurrenceRates(self.mfd)
NpData(self)   == self.nodal_plane_distribution.data
\* a one-shot iterator in place of the list: the constructor's all() used it up
HcDataUsedUp(self) == <<>>
HcData(self)   == self.hypocenter_distribution.data

\* the generator object a call returns: the frame has its arguments, and the
\* body has not started; pos is the place <<mi, ni, di>> of the three loops
Start == <<0, 0, 0>>
Done  == <<-1, -1, -1>>
NewGeneratorEager(self, location, rate_scaling_factor, tom) ==
    [location |-> location, rate_scaling_factor |-> rate_scaling_factor,
     temporal_occurrence_model |-> tom,
     pc |-> "created", pos |-> Start, out |-> <<>>,
     built |-> Len(MfdRates(self)) * Len(NpData(self)) * Len(HcData(self))]
NewGenerator(self, location, rate_scaling_factor, tom) ==
    [location |-> location, rate_scaling_factor |-> rate_scaling_factor,
     temporal_occurrence_model |-> tom,
     pc |-> "created", pos |-> Start, out |-> <<>>, built |-> 0]

\* the three nested for loops: the place of the next pass through the
\* innermost body after the one at pos, or Done when the loops are over
NextPosDepthOutermost(self, pos) ==
    LET M == Len(MfdRates(self))
        N == Len(NpData(self))
        D == Len(HcData(self))
    IN  IF pos = Start
        THEN (IF M > 0 /\ N > 0 /\ D > 0 THEN <<1, 1, 1>> ELSE Done)
        ELSE IF pos[1] < M THEN <<pos[1] + 1, pos[2], pos[3]>>
        ELSE IF pos[2] < N THEN <<1, pos[2] + 1, pos[3]>>
        ELSE IF pos[3] < D THEN <<1, 1, pos[3] + 1>>
        ELSE Done
NextPos(self, pos) ==
    LET M == Len(MfdRates(self))
        N == Len(NpData(self))
        D == Len(HcData(self))
    IN  IF pos = Start
        THEN (IF M > 0 /\ N > 0 /\ D > 0 THEN <<1, 1, 1>> ELSE Done)
        ELSE IF pos[3] < D THEN <<pos[1], pos[2], pos[3] + 1>>
        ELSE IF pos[2] < N THEN <<pos[1], pos[2] + 1, 1>>
        ELSE IF pos[1] < M THEN <<pos[1] + 1, 1, 1>>
        ELSE Done

\* occurrence_rate = mag_occ_rate * float(np_prob) * float(hc_prob)
\* occurrence_rate *= rate_scaling_factor
OccurrenceRateNoDepth(mag_occ_rate, np_prob, hc_prob, rate_scaling_factor) ==
    QMul(QMul(mag_occ_rate, Float(np_prob).q), rate_scaling_factor)
OccurrenceRate(mag_occ_rate, np_prob, hc_prob, rate_scaling_factor) ==
    QMul(QMul(QMul(mag_occ_rate, Float(np_prob).q), Float(hc_prob).q),
         rate_scaling_factor)

\* hypocenter = Point(latitude=location.latitude,
\*                    longitude=location.longitude, depth=hc_depth)
HypocenterAtLocationDepth(location, hc_depth) ==
    Point(location.longitude, location.latitude, location.depth)
Hypocenter(location, hc_depth) ==
    Point(location.longitude, location.latitude, hc_depth)

\* the body of the innermost loop at pos: the ProbabilisticRupture yielded
RuptureAt(self, g, pos) ==
    LET mag          == MfdRates(self)[pos[1]][1]
        mag_occ_rate == MfdRates(self)[pos[1]][2]
        np_prob      == NpData(self)[pos[2]][1]
        np           == NpData(self)[pos[2]][2]
        hc_prob      == HcData(self)[pos[3]][1]
        hc_depth     == HcData(self)[pos[3]][2]
        hypocenter   == Hypocenter(g.location, hc_depth)
    IN  [mag |-> mag, nodal_plane |-> np,
         tectonic_region_type |-> self.tectonic_region_type,
         hypocenter |-> hypocenter,
         surface |-> GetRuptureSurface(self, mag, np, hypocenter),
         occurrence_rate |-> OccurrenceRate(mag_occ_rate, np_prob, hc_prob,
                                            g.rate_scaling_factor),
         temporal_occurrence_model |-> g.temporal_occurrence_model]

\* one next() on generator g: up to the next yield, or to the end of the body
Resume(self, g) ==
    IF g.pc = "created" /\ ~ QLt(QI(0), g.rate_scaling_factor)
    THEN [g EXCEPT !.pc = "AssertionError"]
    ELSE LET pos == NextPos(self, g.pos)
         IN  IF pos = Done THEN [g EXCEPT !.pc = "done", !.pos = Done]
             ELSE LET rupture == RuptureAt(self, g, pos)
                  IN  IF rupture.surface.status = "AssertionError"
                      THEN [g EXCEPT !.pc = "AssertionError", !.pos = pos,
                                     !.built = @ + 1]
                      ELSE [g EXCEPT !.pc = "suspended", !.pos = pos,
                                     !.built = @ + 1,
                                     !.out = Append(@, rupture)]

\* the generators made so far, in the order of the calls that made them
Callers == {"first", "second"}
OtherLocation == Point(QI(11), QI(21), QI(50))
ScalingFactors == {QI(0), QNorm(1, 2)}

IdleEnum == source = NoSource /\ gens = <<>>

\* gen = source.iter_ruptures(tom)
IterRuptures(tom) ==
    /\ Len(gens) < Cardinality(Callers)
    /\ gens' = Append(gens, NewGenerator(source, source.location, QI(1), tom))
    /\ UNCHANGED <<source, pmfVars, psVars, geomVars, mdVars>>

\* gen = source._iter_ruptures_at_location(tom, location, rate_scaling_factor),
\* the call an area source makes for each of its locations
IterRupturesAtLocation(tom, location, rate_scaling_factor) ==
    /\ Len(gens) < Cardinality(Callers)
    /\ gens' = Append(gens, NewGenerator(source, location, rate_scaling_factor, tom))
    /\ UNCHANGED <<source, pmfVars, psVars, geomVars, mdVars>>

\* next(gen)
NextRupture(id) ==
    /\ id \in 1..Len(gens)
    /\ gens[id].pc \in {"created", "suspended"}
    /\ gens' = [gens EXCEPT ![id] = Resume(source, gens[id])]
    /\ UNCHANGED <<source, pmfVars, psVars, geomVars, mdVars>>

(***************************************************************************)
(* The sources whose ruptures are enumerated: every one is the object a    *)
(* successful constructor call returned.                                   *)
(***************************************************************************)
\* a distribution of n values: 1/4 for each but the last, the rest for the last
PlaneOf(i) == CASE i % 3 = 1 -> NodalPlane(0, 90, 0)
                [] i % 3 = 2 -> NodalPlane(45, 53, 90)
                [] i % 3 = 0 -> NodalPlane(300, 37, -90)
SpreadData(n, values) ==
    [i \in 1..n |-> <<IF n = 1 THEN PyInt(1)
                      ELSE IF i < n THEN PyFloat(1, 4)
                      ELSE PyFloat(4 - (n - 1), 4),
                      values[i]>>]
DepthDown(i) == QI((i - 1) % (MaxDepth + 1))
DepthUp(i)   == QI(MaxDepth - ((i - 1) % (MaxDepth + 1)))

EnumNodalPlaneDistributions ==
    {PMFInit(SpreadData(n, [i \in 1..n |-> PlaneOf(i)]), DefaultEpsilon) : n \in 1..MaxDist}
        \ {Raise("ValueError")}
EnumHypocenterDistributions ==
    ({PMFInit(SpreadData(n, [i \in 1..n |-> DepthDown(i)]), DefaultEpsilon) : n \in 1..MaxDist}
     \cup {PMFInit(SpreadData(n, [i \in 1..n |-> DepthUp(i)]), DefaultEpsilon) : n \in 1..MaxDist})
        \ {Raise("ValueError")}

\* MFDs of up to MaxMags bins, the two magnitudes taking turns
EnumMFDs == {[i \in 1..n |-> MagRateOf(i + k)] : n \in 0..MaxMags, k \in {0, 1}}

EnumSources ==
    {Built(SourceArgs(mfd, npd, hcd, QI(0), QI(MaxDepth), [base |-> 1], QNorm(1, 4))) :
        mfd \in EnumMFDs, npd \in EnumNodalPlaneDistributions,
        hcd \in EnumHypocenterDistributions} \ {NoSource}

(***************************************************************************)
(* nhe.geo.geodetic: distance and min_distance.  The points of the model   *)
(* lie on the equator, a longitude being given as km of arc from a common  *)
(* origin, at places whose distances from one another are rational.        *)
(***************************************************************************)
\* geodetic_distance(lon1, lat1, lon2, lat2), for two points of the equator
GeodeticDistance(lon1, lat1, lon2, lat2) == QAbs(QSub(lon1, lon2))

\* distance(lon1, lat1, depth1, lon2, lat2, depth2):
\* sqrt(geodetic_distance ** 2 + (depth1 - depth2) ** 2)
Distance(lon1, lat1, depth1, lon2, lat2, depth2) ==
    LET hdist == GeodeticDistance(lon1, lat1, lon2, lat2)
        vdist == QSub(depth1, depth2)
    IN  QSqrt(QAdd(QMul(hdist, hdist), QMul(vdist, vdist)))

\* the smallest of a non-empty array of distances
RECURSIVE ArrayMin(_)
ArrayMin(a) ==
    IF Len(a) = 1 THEN a[1]
    ELSE LET rest == ArrayMin(SubSeq(a, 2, Len(a)))
         IN  IF QLt(rest, a[1]) THEN rest ELSE a[1]

\* an array of points: its longitudes, latitudes and depths
Lons(points)   == [i \in 1..Len(points) |-> points[i][1]]
Lats(points)   == [i \in 1..Len(points) |-> points[i][2]]
PDepths(points) == [i \in 1..Len(points) |-> points[i][3]]

\* min_distance(mlons, mlats, mdepths, slons, slats, sdepths): for each
\* reference point the smallest distance() to a point of the mesh
MinDistancePerMeshPoint(mlons, mlats, mdepths, slons, slats, sdepths) ==
    [j \in 1..Len(mlons) |->
        ArrayMin([i \in 1..Len(slons) |->
            Distance(mlons[j], mlats[j], mdepths[j], slons[i], slats[i], sdepths[i])])]
MinDistance(mlons, mlats, mdepths, slons, slats, sdepths) ==
    [i \in 1..Len(slons) |->
        ArrayMin([j \in 1..Len(mlons) |->
            Distance(mlons[j], mlats[j], mdepths[j], slons[i], slats[i], sdepths[i])])]

\* the points: the corners and the center of a 6 km by 8 km rectangle
GeoPoints == {<<QI(0), QI(0), QI(0)>>, <<QI(6), QI(0), QI(0)>>,
              <<QI(0), QI(0), QI(8)>>, <<QI(6), QI(0), QI(8)>>,
              <<QI(3), QI(0), QI(4)>>}
NoDistances == <<QI(-1)>>
IdleMD == md_mesh = <<>> /\ md_refs = <<>> /\ md_out = NoDistances

\* the call min_distance(mlons, mlats, mdepths, slons, slats, sdepths)
CallMinDistance ==
    /\ md_out = NoDistances
    /\ md_out' = MinDistance(Lons(md_mesh), Lats(md_mesh), PDepths(md_mesh),
                             Lons(md_refs), Lats(md_refs), PDepths(md_refs))
    /\ UNCHANGED <<md_mesh, md_refs, pmfVars, psVars, geomVars, enumVars>>

(***************************************************************************)
(* The specifications.                                                     *)
(***************************************************************************)
InitPMF ==
    /\ pmf_data \in PmfDataInputs
    /\ pmf_epsilon \in Epsilons
    /\ pmf_out = Pending
    /\ IdlePS /\ IdleGeom /\ IdleEnum /\ IdleMD

NextPMF == PMFConstruct

SpecPMF == InitPMF /\ [][NextPMF]_vars

InitCtor ==
    /\ ps_args \in CtorInputs
    /\ ps_out = PendingSource
    /\ IdlePMF /\ IdleGeom /\ IdleEnum /\ IdleMD

NextCtor == PointSourceConstruct

SpecCtor == InitCtor /\ [][NextCtor]_vars

InitGeom ==
    /\ g_self \in GeomSources
    /\ g_call = NoCall
    /\ g_out = NoSurface
    /\ IdlePMF /\ IdlePS /\ IdleEnum /\ IdleMD

NextGeom ==
    \/ \E mag \in Magnitudes, np \in NodalPlanes : CallGetRuptureDimensions(mag, np)
    \/ \E mag \in Magnitudes, np \in NodalPlanes, depth \in CallDepths :
          CallGetRuptureSurface(mag, np, depth)

SpecGeom == InitGeom /\ [][NextGeom]_vars

Init ==
    /\ source \in EnumSources
    /\ gens = <<>>
    /\ IdlePMF /\ IdlePS /\ IdleGeom /\ IdleMD

Next ==
    \/ IterRuptures("poisson")
    \/ \E rsf \in ScalingFactors :
          IterRupturesAtLocation("poisson", OtherLocation, rsf)
    \/ \E id \in 1..Cardinality(Callers) : NextRupture(id)

Spec == Init /\ [][Next]_vars

InitMD ==
    /\ md_mesh \in SeqsUpTo(GeoPoints, MaxMesh) \ {<<>>}
    /\ md_refs \in SeqsUpTo(GeoPoints, MaxRefs) \ {<<>>}
    /\ md_out = NoDistances
    /\ IdlePMF /\ IdlePS /\ IdleGeom /\ IdleEnum

NextMD == CallMinDistance

SpecMD == InitMD /\ [][NextMD]_vars

(***************************************************************************)
(* The claims.                                                             *)
(***************************************************************************)
\* the three sequences a source enumerates, read off the object itself
SeqM == source.mfd
SeqN == source.nodal_plane_distribution.data
SeqD == source.hypocenter_distribution.data
Total == Len(SeqM) * Len(SeqN) * Len(SeqD)

\* the k-th element of the lexicographic product M x N x D, as indices
ComboM(k) == ((k - 1) \div (Len(SeqD) * Len(SeqN))) + 1
ComboN(k) == (((k - 1) \div Len(SeqD)) % Len(SeqN)) + 1
ComboD(k) == ((k - 1) % Len(SeqD)) + 1

FromIterRuptures(g) == g.location = source.location

\* C1: an enumeration emits one rupture per combination of magnitude, nodal
\* plane and hypocenter depth, |M|*|N|*|D| in all, the k-th rupture being
\* the k-th element of the lexicographic product M x N x D (magnitude
\* outermost, nodal plane in the middle, depth innermost).
C1_NestedOrder ==
    \A id \in 1..Len(gens) :
        LET g == gens[id]
        IN  /\ Len(g.out) <= Total
            /\ (g.pc = "done" => Len(g.out) = Total)
            /\ \A k \in 1..Len(g.out) :
                  /\ g.out[k].mag = SeqM[ComboM(k)][1]
                  /\ g.out[k].nodal_plane = SeqN[ComboN(k)][2]
                  /\ g.out[k].hypocenter.depth = SeqD[ComboD(k)][2]

\* C1 witness: an enumeration of 2 magnitudes x 2 nodal planes x 2 depths
\* has run to its end and emitted 8 ruptures.
C1_Witness ==
    \E id \in 1..Len(gens) :
        /\ Len(SeqM) = 2 /\ Len(SeqN) = 2 /\ Len(SeqD) = 2
        /\ gens[id].pc = "done" /\ Len(gens[id].out) = 8

\* C2: the rupture of the combination (rate r, nodal-plane probability
\* p_np, depth probability p_hc) has occurrence_rate r * p_np * p_hc *
\* rate_scaling_factor, the factor being 1 for iter_ruptures; a source of
\* one magnitude, one nodal plane and one depth yields exactly one rupture,
\* whose rate is the MFD rate.
C2_OccurrenceRate ==
    \A id \in 1..Len(gens) :
        LET g == gens[id]
        IN  /\ FromIterRuptures(g) => g.rate_scaling_factor = QI(1)
            /\ \A k \in 1..Len(g.out) :
                  g.out[k].occurrence_rate =
                      QMul(SeqM[ComboM(k)][2],
                           QMul(SeqN[ComboN(k)][1].q,
                                QMul(SeqD[ComboD(k)][1].q, g.rate_scaling_factor)))
            /\ (FromIterRuptures(g) /\ g.pc = "done" /\ Total = 1) =>
                  /\ Len(g.out) = 1
                  /\ g.out[1].occurrence_rate = SeqM[1][2]

\* C2 witness: iter_ruptures has emitted a rupture whose nodal plane and
\* depth both have a probability below 1.
C2_Witness ==
    \E id \in 1..Len(gens) :
        /\ FromIterRuptures(gens[id]) /\ Len(gens[id].out) >= 1
        /\ QLt(SeqN[1][1].q, QI(1)) /\ QLt(SeqD[1][1].q, QI(1))

\* C3: constructing a PointSource fails with a SourceError and makes no
\* object if and only if the upper depth is negative, or the lower depth is
\* not strictly greater than the upper, or some hypocenter depth lies
\* outside [upper, lower], or the aspect ratio is not > 0; otherwise it
\* succeeds and the object stores the given parameters unchanged.
C3_Invalid ==
    LET a == ps_args
        u == a.upper_seismogenic_depth
        l == a.lower_seismogenic_depth
        d == a.hypocenter_distribution.data
    IN  \/ u[1] < 0
        \/ l[1] * u[2] <= u[1] * l[2]
        \/ \E i \in 1..Len(d) : QLt(d[i][2], u) \/ QLt(l, d[i][2])
        \/ a.rupture_aspect_ratio[1] <= 0

C3_ConstructorValidation ==
    ps_out # PendingSource =>
        /\ C3_Invalid => ps_out = [status |-> "SourceError", obj |-> NoSource]
        /\ ~ C3_Invalid => ps_out = [status |-> "ok", obj |-> ps_args]

\* C3 witness: a constructor call failed only because a hypocenter depth
\* lies below the lower seismogenic depth.
C3_Witness ==
    /\ ps_out.status = "SourceError"
    /\ ps_args.upper_seismogenic_depth = QI(0)
    /\ ps_args.lower_seismogenic_depth = QI(1)
    /\ ps_args.rupture_aspect_ratio = QI(1)
    /\ \E i \in 1..Len(ps_args.hypocenter_distribution.data) :
          ps_args.hypocenter_distribution.data[i][2] = QI(2)

\* C4: PMF construction succeeds exactly when every probability is >= 0 and
\* the sum of the probabilities is within epsilon of 1, and raises a
\* ValueError otherwise; on success the stored data keeps the (probability,
\* value) pairs in their given order.
C4_Valid ==
    /\ \A i \in 1..Len(pmf_data) : pmf_data[i][1].q[1] >= 0
    /\ QLe(QSub(SumQ(Probs(pmf_data)), QI(1)), pmf_epsilon)
    /\ QLe(QSub(QI(1), SumQ(Probs(pmf_data))), pmf_epsilon)

C5_ZeroProbabilityRaises ==
    (pmf_out # Pending /\ \E i \in 1..Len(pmf_data) : pmf_data[i][1].q = QI(0))
        => pmf_out.status = "ValueError"

\* the direct call the geometry claims are about
DimsCalled    == g_call.op = "_get_rupture_dimensions"
SurfaceBuilt  == g_call.op = "_get_rupture_surface" /\ g_out.status = "ok"
CallArea      == GetMedianArea(g_self.magnitude_scaling_relationship,
                               g_call.mag, g_call.nodal_plane.rake)
CallMaxWidth  == QDiv(QSub(g_self.lower_seismogenic_depth, g_self.upper_seismogenic_depth),
                      Sin(g_call.nodal_plane.dip))
CallUnclampedWidth ==
    QDiv(CallArea, QSqrt(QMul(CallArea, g_self.rupture_aspect_ratio)))

\* C6: the product of the returned length and width is the median area; if
\* the unclamped width exceeds max_width the width is max_width and the
\* length is area / max_width, otherwise length / width is the aspect ratio;
\* the width never exceeds max_width.
C6_RuptureDimensions ==
    DimsCalled =>
        LET length == g_out.dims[1]
            width  == g_out.dims[2]
        IN  /\ QMul(length, width) = CallArea
            /\ QLe(width, CallMaxWidth)
            /\ QGt(CallUnclampedWidth, CallMaxWidth) =>
                  /\ width = CallMaxWidth
                  /\ length = QDiv(CallArea, CallMaxWidth)
            /\ ~ QGt(CallUnclampedWidth, CallMaxWidth) =>
                  QDiv(length, width) = g_self.rupture_aspect_ratio

\* C6 witness: the dimensions were computed for a rupture too wide for the
\* layer.
C6_Witness == DimsCalled /\ QGt(CallUnclampedWidth, CallMaxWidth)

\* the depths of the edges of a built surface, from the claim's definition
SurfHalfHeight == QDiv(QMul(g_out.rup_width, Sin(g_call.nodal_plane.dip)), QI(2))
SurfCenter     == QAdd(g_call.hypocenter.depth, g_out.vshift)
SurfTop        == QSub(SurfCenter, SurfHalfHeight)
SurfBottom     == QAdd(SurfCenter, SurfHalfHeight)

\* C7: for a hypocenter depth within the seismogenic layer, the built
\* surface lies inside the layer: its top edge is not above the upper
\* seismogenic depth and its bottom edge not below the lower one.
C7_SurfaceInsideLayer ==
    SurfaceBuilt =>
        /\ g_out.hheight = SurfHalfHeight
        /\ QGe(SurfTop, g_self.upper_seismogenic_depth)
        /\ QLe(SurfBottom, g_self.lower_seismogenic_depth)

\* C7 witness: a surface was built whose rupture had to be clamped and
\* moved up to stay inside the layer.
C7_Witness ==
    /\ SurfaceBuilt /\ QLt(g_out.vshift, QI(0))
    /\ QGt(CallUnclampedWidth, CallMaxWidth)

\* C8: the hypocenter stays on the built surface: its depth lies between
\* the top-edge depth and the bottom-edge depth, also when the rupture
\* center was moved up or down.
C8_HypocenterOnSurface ==
    SurfaceBuilt =>
        /\ QLe(SurfTop, g_call.hypocenter.depth)
        /\ QLe(g_call.hypocenter.depth, SurfBottom)

\* C8 witness: a surface was built whose center was moved down, the
\* hypocenter lying strictly between the top edge and the center.
C8_Witness ==
    /\ SurfaceBuilt /\ QGt(g_out.vshift, QI(0))
    /\ QLt(SurfTop, g_call.hypocenter.depth)

\* C9: enumeration is lazy: the call that makes an enumeration builds no
\* surface, and after k ruptures have been pulled from it exactly k
\* surfaces have been built for it.
C9_LazyEnumeration ==
    \A id \in 1..Len(gens) :
        /\ gens[id].built = Len(gens[id].out)
        /\ gens[id].pc = "created" => gens[id].built = 0 /\ gens[id].pos = Start

\* C9 witness: one enumeration was stopped part-way while another has been
\* made and not pulled from.
C9_Witness ==
    /\ Len(gens) = 2
    /\ gens[1].pc = "suspended" /\ Len(gens[1].out) = 3 /\ Total = 8
    /\ gens[2].pc = "created" /\ FromIterRuptures(gens[2])

\* C10: every call of iter_ruptures enumerates from scratch the same finite
\* sequence: of two enumerations of one source at one location and scaling
\* factor the ruptures pulled so far agree one by one, and each that ends
\* has emitted all |M|*|N|*|D| ruptures, whatever was pulled from the other.
C10_Restartable ==
    \A i \in 1..Len(gens), j \in 1..Len(gens) :
        /\ (gens[i].pc = "done" => Len(gens[i].out) = Total)
        /\ (/\ gens[i].location = gens[j].location
            /\ gens[i].rate_scaling_factor = gens[j].rate_scaling_factor
            /\ Len(gens[i].out) <= Len(gens[j].out))
              => gens[i].out = SubSeq(gens[j].out, 1, Len(gens[i].out))

\* C10 witness: a second call of iter_ruptures has emitted every rupture
\* while an earlier enumeration stays consumed in part.
C10_Witness ==
    /\ Len(gens) = 2 /\ Total >= 4
    /\ FromIterRuptures(gens[1]) /\ FromIterRuptures(gens[2])
    /\ gens[1].pc = "suspended" /\ Len(gens[1].out) = 2
    /\ gens[2].pc = "done" /\ Len(gens[2].out) = Total

\* C11: _get_rupture_surface called with a hypocenter shallower than the
\* upper seismogenic depth or deeper than the lower one fails at once with
\* an assertion failure (not a SourceError) and returns no surface: no
\* dimension and no corner is computed; a depth equal to either bound is
\* accepted.
C11_DepthOutside ==
    LET h == g_call.hypocenter.depth
        u == g_self.upper_seismogenic_depth
        l == g_self.lower_seismogenic_depth
    IN  h[1] * u[2] < u[1] * h[2] \/ h[1] * l[2] > l[1] * h[2]

C11_PreconditionAssertion ==
    g_call.op = "_get_rupture_surface" =>
        /\ C11_DepthOutside => g_out = [status |-> "AssertionError"]
        /\ ~ C11_DepthOutside =>
              /\ g_out.status = "ok"
              /\ Len(g_out.corners) = 4

\* C11 witness: the builder was called with a hypocenter below the lower
\* seismogenic depth and failed with the assertion.
C11_Witness ==
    /\ g_call.op = "_get_rupture_surface"
    /\ QGt(g_call.hypocenter.depth, g_self.lower_seismogenic_depth)
    /\ g_out.status = "AssertionError"

\* the distance() between mesh point j and reference point i of the call
MeshRefDistance(j, i) ==
    Distance(md_mesh[j][1], md_mesh[j][2], md_mesh[j][3],
             md_refs[i][1], md_refs[i][2], md_refs[i][3])

\* C12: min_distance returns one value per reference point, whatever the
\* number of mesh points, and each value is the distance() from that
\* reference point to the closest point of the mesh: the distance to some
\* mesh point, and no larger than the distance to any mesh point.
C12_MinDistance ==
    md_out # NoDistances =>
        /\ Len(md_out) = Len(md_refs)
        /\ \A i \in 1..Len(md_refs) :
              /\ \E j \in 1..Len(md_mesh) : md_out[i] = MeshRefDistance(j, i)
              /\ \A j \in 1..Len(md_mesh) : QLe(md_out[i], MeshRefDistance(j, i))

\* C12 witness: a mesh of three points and two reference points, the point
\* closest to the first reference being the last of the mesh and the two
\* distances returned differing.
C12_Witness ==
    /\ md_out # NoDistances
    /\ Len(md_mesh) = 3 /\ Len(md_refs) = 2
    /\ md_out[1] # md_out[2]
    /\ QLt(MeshRefDistance(3, 1), MeshRefDistance(1, 1))
    /\ QLt(MeshRefDistance(3, 1), MeshRefDistance(2, 1))

\* the shift the claim C13 gives for the built surface
C13_Shift ==
    LET fromTop    == QAdd(QSub(g_self.upper_seismogenic_depth,
                                g_call.hypocenter.depth), SurfHalfHeight)
        fromBottom == QSub(QSub(g_self.lower_seismogenic_depth,
                                g_call.hypocenter.depth), SurfHalfHeight)
    IN  IF QGe(fromTop, QI(0)) THEN fromTop
        ELSE IF QLe(fromBottom, QI(0)) THEN fromBottom
        ELSE QI(0)

\* C13: the vertical shift is upper - depth + half height when that is
\* >= 0, otherwise lower - depth - half height when that is <= 0, otherwise
\* 0.  With a shift of 0 the rupture center is the hypocenter; otherwise it
\* is the hypocenter moved vertically by the shift and horizontally by
\* |shift / tan(dip)|, along (strike + 90) mod 360 for a positive shift and
\* along (strike + 270) mod 360 for a negative one.
C13_VerticalShift ==
    SurfaceBuilt =>
        LET shift  == C13_Shift
            dip    == g_call.nodal_plane.dip
            strike == g_call.nodal_plane.strike
        IN  /\ g_out.vshift = shift
            /\ shift = QI(0) => g_out.rupture_center = g_call.hypocenter
            /\ shift # QI(0) =>
                  /\ g_out.rupture_center.longitude = g_call.hypocenter.longitude
                  /\ g_out.rupture_center.latitude = g_call.hypocenter.latitude
                  /\ g_out.rupture_center.depth = QAdd(g_call.hypocenter.depth, shift)
                  /\ g_out.rupture_center.path =
                        <<  <<IF shift[1] > 0 THEN (strike + 90) % 360
                              ELSE (strike + 270) % 360,
                              QDiv(QMul(QAbs(shift), Cos(dip)), Sin(dip))>>  >>

\* C13 witness: a surface on an inclined plane of strike 300 was built with
\* its center moved up, along the azimuth 210.
C13_Witness ==
    /\ SurfaceBuilt /\ QLt(g_out.vshift, QI(0))
    /\ g_call.nodal_plane.strike = 300 /\ g_call.nodal_plane.dip # 90
    /\ g_out.rupture_center.path[1][1] = 210

\* C14: no enumeration of a constructed source, at its own location or at
\* another one, reaches the assertion of _get_rupture_surface: every
\* hypocenter takes its longitude and latitude from the location and its
\* depth from the hypocenter distribution, whose depths the constructor
\* has checked to lie in the seismogenic layer.  (A generator that ends
\* with an AssertionError is one refused for its rate_scaling_factor,
\* before any surface is asked for.)
C14_NoAssertionInEnumeration ==
    \A id \in 1..Len(gens) :
        LET g == gens[id]
        IN  /\ g.pc = "AssertionError" =>
                  /\ ~ QLt(QI(0), g.rate_scaling_factor)
                  /\ g.pos = Start /\ g.built = 0
            /\ \A k \in 1..Len(g.out) :
                  /\ g.out[k].surface.status = "ok"
                  /\ g.out[k].hypocenter.longitude = g.location.longitude
                  /\ g.out[k].hypocenter.latitude = g.location.latitude
                  /\ g.out[k].hypocenter.depth = SeqD[ComboD(k)][2]
                  /\ QLe(source.upper_seismogenic_depth, g.out[k].hypocenter.depth)
                  /\ QLe(g.out[k].hypocenter.depth, source.lower_seismogenic_depth)

\* C14 witness: an enumeration at a location whose own depth is below the
\* seismogenic layer has run to its end and emitted every rupture.
C14_Witness ==
    \E id \in 1..Len(gens) :
        /\ gens[id].location = OtherLocation
        /\ QGt(gens[id].location.depth, source.lower_seismogenic_depth)
        /\ gens[id].pc = "done" /\ Len(gens[id].out) = Total /\ Total >= 2

=============================================================================
